---------------------------- MODULE Spec2Model ----------------------------
(***************************************************************************)
(* A model of flipper-lightweight-gen.c: the GenerativeState structure,    *)
(* the xorshift32 stream, the Floyd-Steinberg quantizer apply_dither, the  *)
(* frame producer generate_frame with its parameter evolution, and the     *)
(* three callbacks (timer, input, draw) that the application registers.    *)
(*                                                                         *)
(* Number representations                                                  *)
(*   uint32_t  a pair <<hi, lo>> of 16-bit halves (value hi * 2^16 + lo)   *)
(*   uint8_t   an integer in 0..255                                        *)
(*   float     frequency is kept as an integer count of 2^-27 (every value *)
(*             the program stores in it is such a multiple), noise_scale   *)
(*             as an integer count of 2^-33; every float operation rounds  *)
(*             its exact result to a 24-bit significand, nearest-even.     *)
(***************************************************************************)
EXTENDS Integers, Sequences, FiniteSets, TLC

(***************************************************************************)
(* Bounds of the model.  The raster of the program is 128 x 64; the model  *)
(* keeps the code of every loop and scales the raster down.                *)
(***************************************************************************)
SCREEN_WIDTH == 3

SCREEN_HEIGHT == 2

\* generate_frame is not started any more once frame_count reached MaxFrames
\* (specifications Spec and SpecConc).
MaxFrames == 31

\* SpecFrames follows this many consecutive generate_frame calls.
MaxCalls == 260

\* SpecKeys follows runs of at most this many presses of one key.
MaxRun == 21

\* SpecConc follows this many generate_frame calls, and this many key presses.
MaxConcFrames == 2

MaxConcPresses == 1

\* SpecDither: the pixels of a two-tone raster that hold the second tone.
MaxOdd == 2

(***************************************************************************)
(* Program constants.                                                      *)
(***************************************************************************)
\* if(state->frame_count % 30 == 0)
EvolvePeriod == 30

\* uint8_t frame_count: the increment wraps at 2^8
FrameCountWidth == 256

\* old_pixel > 127 ? 255 : 0
Threshold == 127

PixelOn == 255

PixelOff == 0

NumGradients == 10

N == SCREEN_WIDTH * SCREEN_HEIGHT

Pix == 0 .. (N - 1)

(***************************************************************************)
(* uint32_t arithmetic on <<hi, lo>>.                                      *)
(***************************************************************************)
RECURSIVE Pow2(_)
Pow2(k) == IF k = 0 THEN 1 ELSE 2 * Pow2(k - 1)

\* 2^16
Half == 65536

RECURSIVE XorBits(_, _, _)
XorBits(a, b, n) ==
    IF n = 0 THEN 0
    ELSE (((a % 2) + (b % 2)) % 2) + 2 * XorBits(a \div 2, b \div 2, n - 1)

Xor32(u, v) == <<XorBits(u[1], v[1], 16), XorBits(u[2], v[2], 16)>>

\* u << k for 0 < k < 16, truncated to 32 bits
Shl32(u, k) ==
    << ((u[1] * Pow2(k)) % Half) + (u[2] \div Pow2(16 - k)),
       (u[2] * Pow2(k)) % Half >>

\* u >> k for 16 <= k < 32
Shr32(u, k) == << 0, u[1] \div Pow2(k - 16) >>

\* u + n (mod 2^32) for 0 <= n < 2^16
Add32(u, n) ==
    LET lo == u[2] + n
    IN  << (u[1] + (lo \div Half)) % Half, lo % Half >>

\* u % m for 0 < m <= 100
Mod32(u, m) == ((u[1] % m) * (Half % m) + (u[2] % m)) % m

IsZero32(u) == u[1] = 0 /\ u[2] = 0

xorshift32(s) ==
    LET a == Xor32(s, Shl32(s, 13))
        b == Xor32(a, Shr32(a, 17))
    IN  Xor32(b, Shl32(b, 5))

\* One call xorshift32(&rng_state): the stream r = [s, n] carries the state
\* and the number of values drawn from it so far.
Draw(r) == [s |-> xorshift32(r.s), n |-> r.n + 1]

(***************************************************************************)
(* float arithmetic.                                                       *)
(***************************************************************************)
\* The spacing of the floats around s (s >= 0 an integer count of units,
\* a float having a 24-bit significand).
RECURSIVE Ulp(_)
Ulp(s) == IF s < 16777216 THEN 1 ELSE 2 * Ulp(s \div 2)

\* The multiple of u nearest to i + num/den (0 <= num < den), ties to the
\* even multiple.
RoundTo(i, num, den, u) ==
    LET r  == i % u
        lo == i - r
        c  == 2 * (r * den + num)
        up == c > u * den \/ (c = u * den /\ (lo \div u) % 2 = 1)
    IN  IF up THEN lo + u ELSE lo

\* The float nearest to i + num/den (0 <= num < den), ties to even.
RoundRat(i, num, den) == RoundTo(i, num, den, Ulp(i))

RoundF(s) == RoundRat(s, 0, 1)

FAdd(a, b) == RoundF(a + b)

FSub(a, b) == IF a >= b THEN RoundF(a - b) ELSE 0 - RoundF(b - a)

FMax(a, b) == IF a >= b THEN a ELSE b

FMin(a, b) == IF a <= b THEN a ELSE b

\* frequency is counted in units of 2^-27.
\* 1.0f = 2^27 units
F_1_0 == 134217728

\* 4.0f = 2^29 units
F_4_0 == 536870912

\* 0.1f = 0x3DCCCCCD = 13421773 * 2^-27
F_0_1 == 13421773

\* 0.5f + (float)n / 50.0f for 0 <= n < 100: the quotient n/50 is rounded to
\* a float, then the sum.  Computed in units of 2^-29, where
\* n/50 = n * 10737418 + 6n/25 exactly.
FreqOf(n) ==
    LET q == RoundRat(n * 10737418 + ((6 * n) \div 25), (6 * n) % 25, 25)
        s == RoundF(268435456 + q)
    IN  s \div 4

\* (float)n / 1000.0f for 0 <= n < 50, in units of 2^-33, where
\* n/1000 = n * 8589934 + 74n/125 exactly.
NoiseOf(n) == RoundRat(n * 8589934 + ((74 * n) \div 125), (74 * n) % 125, 125)

\* 0.05f = 0x3D4CCCCD = 13421773 * 2^-28 = 429496736 units of 2^-33
NOISE_0_05 == 429496736

\* noise_scale <= 1.0f (1.0 is 2^33 units, past the 32-bit integers, so compared in units of 2^-30)
NoiseLeqOne(x) ==
    (x \div 8 < 1073741824) \/ (x \div 8 = 1073741824 /\ x % 8 = 0)


(***************************************************************************)
(* The quantizer, apply_dither.                                            *)
(***************************************************************************)
\* C integer division, which truncates toward zero
CDiv(a, b) == IF a >= 0 THEN a \div b ELSE 0 - ((0 - a) \div b)

\* (new_val < 0) ? 0 : (new_val > 255) ? 255 : new_val
Clamp(v) == IF v < 0 THEN 0 ELSE IF v > 255 THEN 255 ELSE v

\* old_pixel > 127 ? 255 : 0
QuantizeGE(v) == IF v >= Threshold THEN PixelOn ELSE PixelOff

Quantize(v) == IF v > Threshold THEN PixelOn ELSE PixelOff

\* The neighbours that pixel idx = y * SCREEN_WIDTH + x hands its error to, in
\* the order of the code, each with its weight (in sixteenths).
DitherWritesNoLeftGuard(idx) ==
    LET x == idx % SCREEN_WIDTH
        y == idx \div SCREEN_WIDTH
    IN  (IF x + 1 < SCREEN_WIDTH
         THEN << [t |-> y * SCREEN_WIDTH + (x + 1), c |-> 7] >> ELSE << >>)
        \o
        (IF y + 1 < SCREEN_HEIGHT
         THEN << [t |-> (y + 1) * SCREEN_WIDTH + (x - 1), c |-> 3] >>
              \o << [t |-> (y + 1) * SCREEN_WIDTH + x, c |-> 5] >>
              \o (IF x + 1 < SCREEN_WIDTH
                  THEN << [t |-> (y + 1) * SCREEN_WIDTH + (x + 1), c |-> 1] >>
                  ELSE << >>)
         ELSE << >>)

DitherWrites(idx) ==
    LET x == idx % SCREEN_WIDTH
        y == idx \div SCREEN_WIDTH
    IN  (IF x + 1 < SCREEN_WIDTH
         THEN << [t |-> y * SCREEN_WIDTH + (x + 1), c |-> 7] >> ELSE << >>)
        \o
        (IF y + 1 < SCREEN_HEIGHT
         THEN (IF x > 0
               THEN << [t |-> (y + 1) * SCREEN_WIDTH + (x - 1), c |-> 3] >>
               ELSE << >>)
              \o << [t |-> (y + 1) * SCREEN_WIDTH + x, c |-> 5] >>
              \o (IF x + 1 < SCREEN_WIDTH
                  THEN << [t |-> (y + 1) * SCREEN_WIDTH + (x + 1), c |-> 1] >>
                  ELSE << >>)
         ELSE << >>)

\* state->pixels[t] = clamp(state->pixels[t] + (error * c) / 16), one
\* neighbour after the other
RECURSIVE Diffuse(_, _, _)
Diffuse(p, error, ws) ==
    IF ws = << >> THEN p
    ELSE LET w == Head(ws)
         IN  Diffuse([p EXCEPT ![w.t] = Clamp(p[w.t] + CDiv(error * w.c, 16))],
                     error, Tail(ws))

\* The body of the two loops of apply_dither for one pixel.
DitherPixel(p, idx) ==
    LET old_pixel == p[idx]
        new_pixel == Quantize(old_pixel)
        error     == old_pixel - new_pixel
    IN  Diffuse([p EXCEPT ![idx] = new_pixel], error, DitherWrites(idx))

RECURSIVE DitherFrom(_, _)
DitherFrom(p, idx) ==
    IF idx = N THEN p ELSE DitherFrom(DitherPixel(p, idx), idx + 1)

apply_dither(p) == DitherFrom(p, 0)

(***************************************************************************)
(* The evolution of the parameters, at the end of generate_frame.          *)
(***************************************************************************)
ActivatesHalfPeriod(fc) == fc % (EvolvePeriod \div 2) = 0

\* if(state->frame_count % 30 == 0)
Activates(fc) == fc % EvolvePeriod = 0

\* The body of that if: the parameters it stores, given the seed sd, the
\* incremented frame counter fc, and the gradient type g and the flag inv it
\* finds.  states lists the stream's successive states; posFreq, posNoise
\* and posInv say which draw (the first being 1) gave frequency, noise_scale
\* and the invert check; total is the number of values drawn.
EvolveResult(g, inv, r0, r1, trig, r2, r3, r4, r5) ==
    [ gradient_type |-> IF trig THEN Mod32(r2.s, NumGradients) ELSE g,
      frequency     |-> FreqOf(Mod32(r3.s, 100)),
      noise_scale   |-> NoiseOf(Mod32(r4.s, 50)),
      invert        |-> IF Mod32(r5.s, 100) < 10 THEN ~inv ELSE inv,
      trig          |-> trig,
      posFreq       |-> r3.n,
      posNoise      |-> r4.n,
      posInv        |-> r5.n,
      total         |-> r5.n,
      states        |-> << r0.s, r1.s, r2.s, r3.s, r4.s, r5.s >> ]

EvolveFixedDraws(sd, fc, g, inv) ==
    LET S5(r0, r1, trig, r2, r3, r4) ==
            EvolveResult(g, inv, r0, r1, trig, r2, r3, r4, Draw(r4))
        S4(r0, r1, trig, r2, r3) == S5(r0, r1, trig, r2, r3, Draw(r3))
        S3(r0, r1, trig, r2) == S4(r0, r1, trig, r2, Draw(r2))
        S2(r0, r1, trig) == S3(r0, r1, trig, Draw(r1))
        S1(r0, r1) == S2(r0, r1, Mod32(r1.s, 100) < 20)
        S0(r0) == S1(r0, Draw(r0))
    IN  S0([s |-> Add32(sd, fc), n |-> 0])

\* uint32_t rng_state = seed + frame_count (r0), then in turn: the check
\* of the gradient type (r1) and, if it succeeds, the new gradient type (r2);
\* frequency (r3); noise_scale (r4); the check of invert (r5).
Evolve(sd, fc, g, inv) ==
    LET S5(r0, r1, trig, r2, r3, r4) ==
            EvolveResult(g, inv, r0, r1, trig, r2, r3, r4, Draw(r4))
        S4(r0, r1, trig, r2, r3) == S5(r0, r1, trig, r2, r3, Draw(r3))
        S3(r0, r1, trig, r2) == S4(r0, r1, trig, r2, Draw(r2))
        S2(r0, r1, trig) == S3(r0, r1, trig, IF trig THEN Draw(r1) ELSE r1)
        S1(r0, r1) == S2(r0, r1, Mod32(r1.s, 100) < 20)
        S0(r0) == S1(r0, Draw(r0))
    IN  S0([s |-> Add32(sd, fc), n |-> 0])

\* state->frame_count++ on a uint8_t
IncFrameCount(fc) == (fc + 1) % FrameCountWidth

(***************************************************************************)
(* The input callback's edits.                                             *)
(***************************************************************************)
NextPatternMod9(g) == (g + 1) % (NumGradients - 1)

\* (gradient_type + 1) % 10
NextPattern(g) == (g + 1) % NumGradients

\* (gradient_type + 9) % 10
PrevPattern(g) == (g + 9) % NumGradients

LeftFreqNoClamp(f) == FSub(f, F_0_1)

\* fmaxf(0.1f, frequency - 0.1f)
LeftFreq(f) == FMax(F_0_1, FSub(f, F_0_1))

\* fminf(4.0f, frequency + 0.1f)
RightFreq(f) == FMin(F_4_0, FAdd(f, F_0_1))


(***************************************************************************)
(* Inputs.                                                                 *)
(***************************************************************************)
\* furi_get_tick(): the values the model lets the tick take when the seed is
\* set: 1000, 12345 and 0xFFFFFFE2.
Ticks == { <<0, 12345>>, <<65535, 65506>> }

\* The ticks at which SpecFrames lets the application start.
BootTicks == Ticks \cup { <<0, 0>>, <<0, 1000>>, <<1, 34464>> }

\* generate_gradient returns a uint8_t computed in float arithmetic (sqrtf,
\* atan2f, fmodf) that is not modelled; the raster it fills is drawn from
\* these fields.
Ramp(a, bx, by) ==
    [i \in Pix |-> (a + bx * (i % SCREEN_WIDTH) + by * (i \div SCREEN_WIDTH)) % 256]

Fields == { Ramp(0, 100, 27), Ramp(127, 1, 64) }

generate_gradient(f, i) == f[i]

\* The first loop of generate_frame: every pixel from generate_gradient.
FillRaster(f) == [i \in Pix |-> generate_gradient(f, i)]

(***************************************************************************)
(* State.                                                                  *)
(***************************************************************************)
VARIABLES
    \* GenerativeState (mode is written once and never read: left out)
    pixels, seed, gradient_type, frequency, noise_scale, invert, frame_count,
    \* bookkeeping of the sequential specifications
    hist,   \* generate_frame calls so far, frame_count before the last one,
            \* and the call at which the evolution last activated
    evo,    \* the draws of the last activation
    run,    \* the current run of presses of one key
    \* the quantizer pass followed pixel by pixel (SpecDither)
    dth,
    \* the threads of the concurrent specification (SpecConc)
    tm, gui, stamp

prog == << pixels, seed, gradient_type, frequency, noise_scale, invert, frame_count >>

vars == << pixels, seed, gradient_type, frequency, noise_scale, invert, frame_count,
           hist, evo, run, dth, tm, gui, stamp >>

NoEvo == [ on |-> FALSE, trig |-> FALSE, posFreq |-> 0, posNoise |-> 0,
           posInv |-> 0, total |-> 0, zero |-> FALSE ]

NoRun == [ kind |-> "none", k0 |-> 0, n |-> 0, before |-> 0, before2 |-> 0,
           prevKind |-> "none" ]

NoDth == [ pc |-> "idle", i |-> 0, src |-> << >>, seen |-> << >>, wr |-> {},
           fin |-> << >> ]

TmIdle == [ pc |-> "idle", i |-> 0, f |-> << >>, e |-> << >>, snap |-> << >>,
            mixed |-> FALSE, edited |-> FALSE, tick |-> FALSE ]

GuiIdle == [ pc |-> "idle", i |-> 0, first |-> 0, mix |-> FALSE,
             tone |-> FALSE, inflight |-> FALSE, presses |-> 0 ]

\* flipper_gen_app_alloc, up to the start of the timer: the fields it sets,
\* and a raster that malloc left uninitialized.
InitProg(ticks) ==
    /\ pixels \in Fields
    /\ seed \in ticks
    /\ gradient_type = 0
    /\ frequency = F_1_0
    /\ noise_scale = NOISE_0_05
    /\ invert = FALSE
    /\ frame_count = 0

InitAux ==
    /\ hist = [calls |-> 0, prevFC |-> 0, lastAct |-> 0]
    /\ evo = NoEvo
    /\ run = NoRun
    /\ dth = NoDth
    /\ tm = TmIdle
    /\ gui = GuiIdle
    /\ stamp = [i \in Pix |-> 0]

Init == InitProg(Ticks) /\ InitAux

(***************************************************************************)
(* The handlers, each run to completion.                                   *)
(***************************************************************************)
\* The raster generate_frame leaves, for each field: its two loops and
\* apply_dither.
FrameOf == [f \in Fields |-> apply_dither(FillRaster(f))]

\* the stores of the evolution, e being what Evolve computed
StoreEvolved(e) ==
    /\ gradient_type' = e.gradient_type
    /\ frequency' = e.frequency
    /\ noise_scale' = e.noise_scale
    /\ invert' = e.invert

\* the end of generate_frame, from state->frame_count++ on
EvolveParams ==
    /\ frame_count' = IncFrameCount(frame_count)
    /\ IF Activates(IncFrameCount(frame_count))
       THEN StoreEvolved(Evolve(seed, IncFrameCount(frame_count), gradient_type, invert))
       ELSE UNCHANGED << gradient_type, frequency, noise_scale, invert >>
    /\ UNCHANGED seed

\* generate_frame, the raster of its first loop being f
GenerateFrame(f) ==
    /\ pixels' = FrameOf[f]
    /\ EvolveParams

\* what the bookkeeping keeps of an activation
EvoRecord(e) ==
    [ on |-> TRUE, trig |-> e.trig, posFreq |-> e.posFreq,
      posNoise |-> e.posNoise, posInv |-> e.posInv, total |-> e.total,
      zero |-> \E k \in 1 .. Len(e.states) : IsZero32(e.states[k]) ]

\* what the bookkeeping records of a generate_frame call
FrameAux ==
    /\ hist' = [ calls   |-> hist.calls + 1,
                 prevFC  |-> frame_count,
                 lastAct |-> IF Activates(IncFrameCount(frame_count))
                             THEN hist.calls + 1 ELSE hist.lastAct ]
    /\ evo' = IF Activates(IncFrameCount(frame_count))
              THEN EvoRecord(Evolve(seed, IncFrameCount(frame_count),
                                    gradient_type, invert))
              ELSE evo

\* case InputKeyOk, furi_get_tick() returning t
InputOk(t) ==
    /\ seed' = t
    /\ gradient_type' = Mod32(t, NumGradients)
    /\ frequency' = FreqOf(Mod32(t, 100))
    /\ UNCHANGED << pixels, noise_scale, invert, frame_count >>

\* case InputKeyUp
InputUp ==
    /\ gradient_type' = NextPattern(gradient_type)
    /\ UNCHANGED << pixels, seed, frequency, noise_scale, invert, frame_count >>

\* case InputKeyDown
InputDown ==
    /\ gradient_type' = PrevPattern(gradient_type)
    /\ UNCHANGED << pixels, seed, frequency, noise_scale, invert, frame_count >>

\* case InputKeyLeft
InputLeft ==
    /\ frequency' = LeftFreq(frequency)
    /\ UNCHANGED << pixels, seed, gradient_type, noise_scale, invert, frame_count >>

\* case InputKeyRight
InputRight ==
    /\ frequency' = RightFreq(frequency)
    /\ UNCHANGED << pixels, seed, gradient_type, noise_scale, invert, frame_count >>

(***************************************************************************)
(* Spec: the callbacks one at a time, in any order.                        *)
(***************************************************************************)
SeqFrame ==
    /\ frame_count < MaxFrames
    /\ \E f \in Fields : GenerateFrame(f)
    /\ FrameAux
    /\ UNCHANGED << run, dth, tm, gui, stamp >>

SeqOk ==
    /\ \E t \in Ticks : InputOk(t)
    /\ UNCHANGED << hist, evo, run, dth, tm, gui, stamp >>

SeqUp ==
    /\ InputUp
    /\ UNCHANGED << hist, evo, run, dth, tm, gui, stamp >>

SeqDown ==
    /\ InputDown
    /\ UNCHANGED << hist, evo, run, dth, tm, gui, stamp >>

SeqLeft ==
    /\ InputLeft
    /\ UNCHANGED << hist, evo, run, dth, tm, gui, stamp >>

SeqRight ==
    /\ InputRight
    /\ UNCHANGED << hist, evo, run, dth, tm, gui, stamp >>

Next == SeqFrame \/ SeqOk \/ SeqUp \/ SeqDown \/ SeqLeft \/ SeqRight

Spec == Init /\ [][Next]_vars


(***************************************************************************)
(* SpecFrames: generate_frame called again and again (once by              *)
(* flipper_gen_app_alloc, then by every timer_callback), no key pressed.   *)
(***************************************************************************)
InitFrames == InitProg(BootTicks) /\ InitAux

FramesTimer ==
    /\ hist.calls < MaxCalls
    /\ \E f \in Fields : GenerateFrame(f)
    /\ FrameAux
    /\ UNCHANGED << run, dth, tm, gui, stamp >>

SpecFrames == InitFrames /\ [][FramesTimer]_vars

(***************************************************************************)
(* SpecKeys: presses of Up and Down, with the current run of presses of    *)
(* one key: the gradient type the run started from (k0), its length (n),   *)
(* and the gradient type before the last press and before the one before.  *)
(***************************************************************************)
RunAfter(kind) ==
    [ kind     |-> kind,
      k0       |-> IF run.kind = kind THEN run.k0 ELSE gradient_type,
      n        |-> IF run.kind = kind THEN run.n + 1 ELSE 1,
      before   |-> gradient_type,
      before2  |-> run.before,
      prevKind |-> run.kind ]

KeysUp ==
    /\ run.kind = "up" => run.n < MaxRun
    /\ InputUp
    /\ run' = RunAfter("up")
    /\ UNCHANGED << hist, evo, dth, tm, gui, stamp >>

KeysDown ==
    /\ run.kind = "down" => run.n < MaxRun
    /\ InputDown
    /\ run' = RunAfter("down")
    /\ UNCHANGED << hist, evo, dth, tm, gui, stamp >>

SpecKeys == Init /\ [][KeysUp \/ KeysDown]_vars

(***************************************************************************)
(* SpecDither: one generate_frame call followed step by step: the fill     *)
(* loop, apply_dither pixel by pixel, the evolution.  dth keeps the raster *)
(* the fill loop stored (src), the value each pixel held when the          *)
(* quantizer visited it (seen), how often each pixel was given its output  *)
(* (fin) and the pixels the last step handed error to (wr).                *)
(***************************************************************************)
Tones == { 0, 73, 127, 128, 201, 255 }

\* The raster that holds b at the pixels of S and a elsewhere.
TwoTone(a, b, S) == [i \in Pix |-> IF i \in S THEN b ELSE a]

DitherFields ==
    { TwoTone(a, b, S) : a \in Tones, b \in Tones,
                         S \in { T \in SUBSET Pix : Cardinality(T) <= MaxOdd } }
    \cup { Ramp(a, bx, by) : a \in {0, 100, 127, 128}, bx \in {0, 1, 60, 255},
                             by \in {0, 27, 255} }

InitDither ==
    /\ InitProg(Ticks)
    /\ InitAux

DthStart ==
    /\ dth.pc = "idle"
    /\ hist.calls = 0
    /\ dth' = [dth EXCEPT !.pc = "fill"]
    /\ UNCHANGED << prog, hist, evo, run, tm, gui, stamp >>

DthFill ==
    /\ dth.pc = "fill"
    /\ \E f \in DitherFields :
          /\ pixels' = FillRaster(f)
          /\ dth' = [ pc |-> "dither", i |-> 0, src |-> FillRaster(f),
                      seen |-> [j \in Pix |-> -1], wr |-> {},
                      fin |-> [j \in Pix |-> 0] ]
    /\ UNCHANGED << seed, gradient_type, frequency, noise_scale, invert,
                    frame_count, hist, evo, run, tm, gui, stamp >>

Targets(ws) == { ws[k].t : k \in 1 .. Len(ws) }

DthPixel ==
    /\ dth.pc = "dither"
    /\ pixels' = DitherPixel(pixels, dth.i)
    /\ dth' = [ dth EXCEPT
                  !.pc = IF dth.i + 1 = N THEN "evolve" ELSE "dither",
                  !.i = dth.i + 1,
                  !.seen[dth.i] = pixels[dth.i],
                  !.fin[dth.i] = @ + 1,
                  !.wr = Targets(DitherWrites(dth.i)) ]
    /\ UNCHANGED << seed, gradient_type, frequency, noise_scale, invert,
                    frame_count, hist, evo, run, tm, gui, stamp >>

DthEvolve ==
    /\ dth.pc = "evolve"
    /\ EvolveParams
    /\ FrameAux
    /\ UNCHANGED pixels
    /\ dth' = [dth EXCEPT !.pc = "done"]
    /\ UNCHANGED << run, tm, gui, stamp >>

SpecDither == InitDither /\ [][DthStart \/ DthFill \/ DthPixel \/ DthEvolve]_vars


(***************************************************************************)
(* SpecConc: the callbacks as the application registers them, with no lock *)
(* between them.  generate_frame runs on the thread of the timer service   *)
(* (timer_callback); draw_callback and input_callback run on the thread of *)
(* the GUI service.  The two threads share GenerativeState; a step is one  *)
(* iteration of a pixel loop, the two halves of the evolution, or one      *)
(* input_callback, and the steps of the two threads interleave freely.     *)
(*                                                                         *)
(* The specification starts one frame before the first evolution: 29       *)
(* frames have been produced and no key was pressed.                       *)
(*                                                                         *)
(* tm:  where generate_frame is (pc, i), the field f of this frame, the    *)
(*      local rng results e, the parameters the first pixel of the frame   *)
(*      was evaluated with (snap), whether a later pixel was evaluated     *)
(*      with others (mixed), whether a key edit happened while the call    *)
(*      was in flight (edited), or between the two halves of an            *)
(*      activation (tick).                                                 *)
(* gui: where draw_callback is (pc, i), the frame of the first pixel it    *)
(*      read (first), whether it read pixels of two frames (mix), a        *)
(*      pixel that is neither 0 nor 255 (tone), or any pixel while         *)
(*      generate_frame was in flight (inflight).                           *)
(* stamp: for each pixel, the generate_frame call that wrote it last.      *)
(***************************************************************************)
ConcStart == EvolvePeriod - 1

InitConc ==
    /\ pixels \in { FrameOf[f] : f \in Fields }
    /\ seed \in Ticks
    /\ gradient_type = 0
    /\ frequency = F_1_0
    /\ noise_scale = NOISE_0_05
    /\ invert = FALSE
    /\ frame_count = ConcStart
    /\ hist = [calls |-> ConcStart, prevFC |-> ConcStart - 1, lastAct |-> 0]
    /\ evo = NoEvo
    /\ run = NoRun
    /\ dth = NoDth
    /\ tm = TmIdle
    /\ gui = GuiIdle
    /\ stamp = [i \in Pix |-> ConcStart]

\* timer_callback is called
TmStart ==
    /\ tm.pc = "idle"
    /\ hist.calls < ConcStart + MaxConcFrames
    /\ \E f \in Fields :
          tm' = [ pc |-> "fill", i |-> 0, f |-> f, e |-> << >>, snap |-> << >>,
                  mixed |-> FALSE, edited |-> FALSE, tick |-> FALSE ]
    /\ UNCHANGED << prog, hist, evo, run, dth, gui, stamp >>

\* state->pixels[y * SCREEN_WIDTH + x] = generate_gradient(x, y, state)
TmFill ==
    /\ tm.pc = "fill"
    /\ pixels' = [pixels EXCEPT ![tm.i] = generate_gradient(tm.f, tm.i)]
    /\ stamp' = [stamp EXCEPT ![tm.i] = hist.calls + 1]
    /\ tm' = [ tm EXCEPT
                 !.pc = IF tm.i + 1 = N THEN "dither" ELSE "fill",
                 !.i = IF tm.i + 1 = N THEN 0 ELSE tm.i + 1,
                 !.snap = IF tm.i = 0 THEN << seed, gradient_type, frequency >>
                          ELSE @,
                 !.mixed = @ \/ (tm.i > 0 /\
                                 tm.snap # << seed, gradient_type, frequency >>) ]
    /\ UNCHANGED << seed, gradient_type, frequency, noise_scale, invert,
                    frame_count, hist, evo, run, dth, gui >>

\* one iteration of the loops of apply_dither
TmDither ==
    /\ tm.pc = "dither"
    /\ pixels' = DitherPixel(pixels, tm.i)
    /\ stamp' = [ j \in Pix |->
                    IF j = tm.i \/ j \in Targets(DitherWrites(tm.i))
                    THEN hist.calls + 1 ELSE stamp[j] ]
    /\ tm' = [ tm EXCEPT
                 !.pc = IF tm.i + 1 = N THEN "evolve" ELSE "dither",
                 !.i = IF tm.i + 1 = N THEN 0 ELSE tm.i + 1 ]
    /\ UNCHANGED << seed, gradient_type, frequency, noise_scale, invert,
                    frame_count, hist, evo, run, dth, gui >>

\* state->frame_count++, and on an activation rng_state and the gradient type
TmEvolve ==
    /\ tm.pc = "evolve"
    /\ frame_count' = IncFrameCount(frame_count)
    /\ FrameAux
    /\ IF Activates(IncFrameCount(frame_count))
       THEN \E e \in { Evolve(seed, IncFrameCount(frame_count), gradient_type, invert) } :
               /\ gradient_type' = e.gradient_type
               /\ tm' = [tm EXCEPT !.pc = "evolve2", !.e = e]
       ELSE /\ tm' = [tm EXCEPT !.pc = "idle"]
            /\ UNCHANGED gradient_type
    /\ UNCHANGED << pixels, seed, frequency, noise_scale, invert, run, dth, gui, stamp >>

\* the rest of an activation: frequency, noise_scale, invert
TmEvolve2 ==
    /\ tm.pc = "evolve2"
    /\ frequency' = tm.e.frequency
    /\ noise_scale' = tm.e.noise_scale
    /\ invert' = tm.e.invert
    /\ tm' = [tm EXCEPT !.pc = "idle"]
    /\ UNCHANGED << pixels, seed, gradient_type, frame_count, hist, evo, run,
                    dth, gui, stamp >>

\* draw_callback is called
GuiDrawStart ==
    /\ gui.pc = "idle"
    /\ gui' = [ gui EXCEPT !.pc = "draw", !.i = 0, !.first = 0, !.mix = FALSE,
                           !.tone = FALSE, !.inflight = FALSE ]
    /\ UNCHANGED << prog, hist, evo, run, dth, tm, stamp >>

\* if(state->pixels[y * SCREEN_WIDTH + x] > 127) canvas_draw_dot(canvas, x, y)
GuiDrawPixel ==
    /\ gui.pc = "draw"
    /\ gui' = [ gui EXCEPT
                  !.pc = IF gui.i + 1 = N THEN "idle" ELSE "draw",
                  !.i = IF gui.i + 1 = N THEN 0 ELSE gui.i + 1,
                  !.first = IF gui.i = 0 THEN stamp[gui.i] ELSE @,
                  !.mix = @ \/ (gui.i > 0 /\ stamp[gui.i] # gui.first),
                  !.tone = @ \/ pixels[gui.i] \notin {PixelOff, PixelOn},
                  !.inflight = @ \/ tm.pc # "idle" ]
    /\ UNCHANGED << prog, hist, evo, run, dth, tm, stamp >>

\* what the bookkeeping records of an input_callback that edits
EditAux ==
    /\ gui.pc = "idle"
    /\ gui.presses < MaxConcPresses
    /\ gui' = [gui EXCEPT !.presses = @ + 1]
    /\ tm' = [ tm EXCEPT !.edited = @ \/ tm.pc # "idle",
                         !.tick = @ \/ tm.pc = "evolve2" ]
    /\ UNCHANGED << hist, evo, run, dth, stamp >>

GuiOk == EditAux /\ \E t \in Ticks : InputOk(t)

GuiUp == EditAux /\ InputUp

GuiDown == EditAux /\ InputDown

GuiLeft == EditAux /\ InputLeft

GuiRight == EditAux /\ InputRight

NextConc ==
    \/ TmStart \/ TmFill \/ TmDither \/ TmEvolve \/ TmEvolve2
    \/ GuiDrawStart \/ GuiDrawPixel
    \/ GuiOk \/ GuiUp \/ GuiDown \/ GuiLeft \/ GuiRight

SpecConc == InitConc /\ [][NextConc]_vars


(***************************************************************************)
(* The claims.                                                             *)
(***************************************************************************)
Visited(j) == dth.pc \in {"dither", "evolve", "done"} /\ j < dth.i

\* C1 (SpecDither): a pixel the quantizer has visited is 255 if the value it
\* held when visited was greater than 127 and 0 otherwise (127 gives 0), and
\* when generate_frame returns every pixel of the raster is 0 or 255.
C1_BinaryByThreshold ==
    /\ \A j \in Pix :
          Visited(j) =>
             /\ pixels[j] \in {0, 255}
             /\ (pixels[j] = 255) <=> (dth.seen[j] > 127)
    /\ dth.pc = "done" => \A j \in Pix : pixels[j] \in {0, 255}

\* generate_frame has returned, and the pass met both sides of the
\* threshold: the first pixel was visited at 127 and is off, its right
\* neighbour was visited at 128 and is on.
C1_Witness ==
    /\ dth.pc = "done"
    /\ dth.seen[0] = 127 /\ pixels[0] = 0
    /\ dth.seen[1] = 128 /\ pixels[1] = 255

\* C2 (SpecFrames): the evolution last activated at the latest call whose
\* number is a multiple of 30 (so the first activation is the 30th call and
\* activations are 30 calls apart), and every call leaves frame_count
\* greater than it found it.
C2_Every30Calls ==
    /\ hist.lastAct = hist.calls - (hist.calls % 30)
    /\ hist.calls > 0 => frame_count > hist.prevFC

\* C3 (SpecFrames): a generate_frame call never changes seed, and one that
\* leaves frame_count no multiple of 30 changes neither gradient_type nor
\* frequency nor noise_scale nor invert.
C3_QuietBetweenTicks ==
    [][ frame_count' # frame_count =>
          /\ seed' = seed
          /\ (frame_count' % 30 # 0) =>
                /\ gradient_type' = gradient_type
                /\ frequency' = frequency
                /\ noise_scale' = noise_scale
                /\ invert' = invert ]_vars

\* The call after an activation: it was quiet, and the parameters are the
\* evolved ones, no longer those of flipper_gen_app_alloc.
C3_Witness ==
    /\ evo.on
    /\ hist.calls = hist.lastAct + 1
    /\ frequency # F_1_0
    /\ noise_scale # NOISE_0_05

\* C4 (Spec): gradient_type is in 0..9, frequency in [0.1f, 4.0f] and
\* noise_scale in [0, 1], whatever frames and key presses came before.
C4_Domains ==
    /\ gradient_type \in 0 .. 9
    /\ frequency >= 13421773
    /\ frequency <= 536870912
    /\ noise_scale >= 0
    /\ NoiseLeqOne(noise_scale)

\* Right was pressed until frequency stood at 4.0f, after an evolution.
C4_Witness ==
    /\ evo.on
    /\ frequency = 536870912

\* C5 (SpecKeys): Up gives (k + 1) mod 10 and Down (k - 1) mod 10; a run of n
\* presses of Up is back at the gradient type it started from exactly when n
\* is a multiple of 10; a Down after an Up gives back the gradient type
\* before that Up.
C5_CycleOfTen ==
    /\ run.kind = "up" => gradient_type = (run.before + 1) % 10
    /\ run.kind = "down" => gradient_type = (run.before - 1) % 10
    /\ run.kind = "up" => ((gradient_type = run.k0) <=> (run.n % 10 = 0))
    /\ (run.kind = "down" /\ run.prevKind = "up") => gradient_type = run.before2

\* Ten presses of Up, starting from gradient type 7, are back at 7.
C5_Witness ==
    /\ run.kind = "up"
    /\ run.n = 10
    /\ run.k0 = 7
    /\ gradient_type = 7

\* C6 (SpecConc): draw_callback reads no pixel while generate_frame is in
\* flight, no pixel that is neither 0 nor 255, and no pixels of two frames.
C6_NoPartialFrame ==
    /\ ~gui.inflight
    /\ ~gui.tone
    /\ ~gui.mix

\* C7 (SpecConc): no key edit takes effect while generate_frame is in
\* flight: the pixels of a frame are all evaluated with the same seed,
\* gradient_type and frequency, and no edit falls between the stores of an
\* evolution.
C7_EditsBetweenFrames ==
    /\ ~tm.edited
    /\ ~tm.mixed
    /\ ~tm.tick

\* C8 as stated (SpecFrames): frequency, noise_scale and the invert check
\* use the same draws of the stream whether or not the check of the gradient
\* type succeeded: the second, third and fourth of four.
C8_SamePositions ==
    evo.on =>
       /\ evo.posFreq = 2
       /\ evo.posNoise = 3
       /\ evo.posInv = 4
       /\ evo.total = 4

\* C8 amended (SpecFrames): the draws come in the order check of the
\* gradient type, new gradient type (only if the check succeeded),
\* frequency, noise_scale, check of invert: frequency, noise_scale and the
\* invert check use draws 2, 3, 4 of 4 if the check failed and draws 3, 4, 5
\* of 5 if it succeeded.
C8_DrawOrder ==
    evo.on =>
       << evo.posFreq, evo.posNoise, evo.posInv, evo.total >>
          = IF evo.trig THEN << 3, 4, 5, 5 >> ELSE << 2, 3, 4, 4 >>

\* An activation whose check of the gradient type succeeded, on a stream
\* that is not stuck at zero.
C8_Witness ==
    /\ evo.on
    /\ evo.trig
    /\ ~evo.zero

\* C9 (SpecFrames): on an activation neither seed + frame_count nor any
\* state the stream takes after it is zero.
C9_StreamNeverZero == evo.on => ~evo.zero

\* The offset of pixel t from pixel idx, in columns and rows.
Offset(idx, t) ==
    << (t % SCREEN_WIDTH) - (idx % SCREEN_WIDTH),
       (t \div SCREEN_WIDTH) - (idx \div SCREEN_WIDTH) >>

\* C10 (SpecDither): during the pass every raster entry is within 0..255,
\* the visited pixels have been given their output exactly once and still
\* hold it, the others not yet; the pixels a step hands error to are inside
\* the raster, not yet visited, and the right, below-left, below or
\* below-right neighbour of the pixel of that step.
C10_ForwardInBounds ==
    dth.pc \in {"dither", "evolve", "done"} =>
       /\ \A j \in Pix : pixels[j] \in 0 .. 255
       /\ \A j \in Pix : dth.fin[j] = IF j < dth.i THEN 1 ELSE 0
       /\ \A j \in Pix :
             j < dth.i => pixels[j] = IF dth.seen[j] > 127 THEN 255 ELSE 0
       /\ dth.i > 0 =>
             \A t \in dth.wr :
                /\ t \in Pix
                /\ t > dth.i - 1
                /\ Offset(dth.i - 1, t) \in
                      { << 1, 0 >>, << -1, 1 >>, << 0, 1 >>, << 1, 1 >> }

\* The last pixel of the first row has just been visited and handed error
\* to the two neighbours it has, below-left and below; before it the first
\* pixel, visited at 127, gave its right neighbour so much that the sum was
\* cut at 255.
C10_Witness ==
    /\ dth.pc = "dither"
    /\ dth.i = SCREEN_WIDTH
    /\ Cardinality(dth.wr) = 2
    /\ dth.seen[0] = 127
    /\ dth.src[1] + 55 > 255
    /\ dth.src[1] < 255
    /\ dth.seen[1] = 255

============================================================================
